---- MODULE Spec2Model ----
(***************************************************************************)
(* absent.py: which files of a "camera" folder are not present, by         *)
(* content, in a collection of "library" folders; with --rmdups the camera *)
(* files that are present in the library are deleted.                      *)
(*                                                                         *)
(* The model is one process running main() (survey_library, then the       *)
(* resolution loop over the camera, then the optional deletion pass), a    *)
(* small file system, and an environment that may make a file vanish       *)
(* while main() runs.                                                      *)
(***************************************************************************)
EXTENDS Integers, Sequences, FiniteSets, TLC

\* ------------------------------------------------------------------ bounds
MaxFaults == 1          \* files the environment may remove during the runs
MaxLibFolders == 2      \* length of the dest_folders argument list

\* ------------------------------------------------------- the file system
\* Directory tree:   t/        t/s/       o/
\*                   t/a       t/s/b      o/c
Dirs == {"t", "t/s", "o"}
Files == {"t/a", "t/s/b", "o/c"}

\* os.path.join(dpath, fname): the directory a file path lives in
DirOf(f) == CASE f = "t/a" -> "t" [] f = "t/s/b" -> "t/s" [] OTHER -> "o"

\* the dirs list os.walk yields for a directory
SubDirs(d) == IF d = "t" THEN <<"t/s">> ELSE <<>>

\* file f is reached by os.walk(d)
Under(f, d) == DirOf(f) = d \/ (d = "t" /\ DirOf(f) = "t/s")

\* File contents: two different contents of one length and one of another
Contents == {<<"a">>, <<"b">>, <<"c", "c">>}
MTimes == {1, 2}

\* The program reads lengths, and compares contents and time stamps for
\* equality only: the two contents of length 1 are interchangeable, and so are
\* the two time stamps. One file's choice is fixed up to that renaming.
FileContents == {c \in [Files -> Contents] : c["t/a"] # <<"b">>}
FileTimes == {m \in [Files -> MTimes] : m["t/a"] = 1}

None == "None"

VARIABLES
    disk,            \* the files that exist
    content,         \* content[f]: the bytes of file f
    mtime,           \* mtime[f]: st_mtime of file f
    camera_folder,   \* args.new_folder
    library_folders, \* args.dest_folders
    rmdups,          \* args.rmdups
    pc,              \* where main() is
    run,             \* which run of main() this is: "first" or "second"
    faults,          \* files removed by the environment so far
    fi,              \* survey_library: index of the next folder of folders
    todo,            \* os.walk: directories still to list
    fnames,          \* os.walk: files of the listed directory still to visit
    res,             \* survey_library: length -> list of paths
    cnt,             \* survey_library: cnt
    visits,          \* survey_library: one entry per loop iteration
    surveyed,        \* main: surveyed
    absent,          \* main: absent
    not_needed,      \* main: not_needed
    mcnt,            \* main: cnt
    last,            \* the last locate() call: target, result, comparisons
    di,              \* main: position of the deletion loop in not_needed
    deleting,        \* paths printed as 'Deleting:'
    del_errors,      \* paths printed as 'Error in deletion:'
    removed,         \* paths os.remove returned normally for, this run
    prev             \* what the previous run classified absent and removed

vars == <<disk, content, mtime, camera_folder, library_folders, rmdups, pc,
          run, faults, fi, todo, fnames, res, cnt, visits, surveyed, absent,
          not_needed, mcnt, last, di, deleting, del_errors, removed, prev>>

fsvars == <<content, mtime>>
argvars == <<camera_folder, library_folders, rmdups>>
surveyvars == <<fi, res, cnt, visits>>
mainvars == <<surveyed, absent, not_needed, mcnt, last>>
delvars == <<di, deleting, del_errors, removed>>

\* ---------------------------------------------------------------- helpers
Range(s) == {s[i] : i \in 1..Len(s)}

RECURSIVE SeqOf(_)
SeqOf(S) == IF S = {} THEN <<>>
            ELSE LET x == CHOOSE y \in S : TRUE IN <<x>> \o SeqOf(S \ {x})

SeqsUpTo(S, n) == UNION {[1..k -> S] : k \in 0..n}

\* os.stat(p).st_size
Size(f) == Len(content[f])

\* the nondirs list os.walk yields for directory d, read when d is listed
ListFiles(d) == SeqOf({f \in disk : DirOf(f) = d})

\* filecmp._sig: (type, size, mtime); every file here is a regular file
Sig(f) == <<Size(f), mtime[f]>>

\* filecmp.cmp raises when os.stat fails on either file
CmpRaises(f1, f2) == f1 \notin disk \/ f2 \notin disk

\* filecmp.cmp(f1, f2, shallow): equal signatures decide a shallow call;
\* otherwise different sizes are unequal and equal sizes are compared by bytes
cmp(f1, f2, shallow) ==
    IF shallow /\ Sig(f1) = Sig(f2) THEN TRUE
    ELSE IF Size(f1) # Size(f2) THEN FALSE
    ELSE content[f1] = content[f2]

NoLast == [tgt |-> None, found |-> None, err |-> "none", calls |-> <<>>]
NoPrev == [absent |-> {}, removed |-> {}]


\* ----------------------------------------------------------------- locate
Result(found, err, calls) == [found |-> found, err |-> err, calls |-> calls]
Call(fbase, shallow) == [base |-> fbase, shallow |-> shallow]

\* (variant) accepts a record as soon as the shallow comparison accepts it
RECURSIVE scan_shallow_only(_, _, _)
scan_shallow_only(tgt_fpath, fpaths, calls) ==
    IF fpaths = <<>> THEN Result(None, "none", calls)
    ELSE LET fbase_path == Head(fpaths)
             c1 == Append(calls, Call(fbase_path, TRUE))
         IN IF CmpRaises(tgt_fpath, fbase_path) THEN Result(None, "cmp", c1)
            ELSE IF ~cmp(tgt_fpath, fbase_path, TRUE)
                 THEN scan_shallow_only(tgt_fpath, Tail(fpaths), c1)
                 ELSE Result(fbase_path, "none", c1)

\* (variant) gives up at the first record the full comparison rejects
RECURSIVE scan_break(_, _, _)
scan_break(tgt_fpath, fpaths, calls) ==
    IF fpaths = <<>> THEN Result(None, "none", calls)
    ELSE LET fbase_path == Head(fpaths)
             c1 == Append(calls, Call(fbase_path, TRUE))
             c2 == Append(c1, Call(fbase_path, FALSE))
         IN IF CmpRaises(tgt_fpath, fbase_path) THEN Result(None, "cmp", c1)
            ELSE IF ~cmp(tgt_fpath, fbase_path, TRUE)
                 THEN scan_break(tgt_fpath, Tail(fpaths), c1)
                 ELSE IF cmp(tgt_fpath, fbase_path, FALSE)
                      THEN Result(fbase_path, "none", c2)
                      ELSE Result(None, "none", c2)

\* the for loop of locate over the bucket, from its first record on; calls is
\* the list of filecmp.cmp calls made so far
RECURSIVE scan(_, _, _)
scan(tgt_fpath, fpaths, calls) ==
    IF fpaths = <<>> THEN Result(None, "none", calls)
    ELSE LET fbase_path == Head(fpaths)
             c1 == Append(calls, Call(fbase_path, TRUE))
             c2 == Append(c1, Call(fbase_path, FALSE))
         IN IF CmpRaises(tgt_fpath, fbase_path) THEN Result(None, "cmp", c1)
            ELSE IF ~cmp(tgt_fpath, fbase_path, TRUE)
                 THEN scan(tgt_fpath, Tail(fpaths), c1)
                 ELSE IF cmp(tgt_fpath, fbase_path, FALSE)
                      THEN Result(fbase_path, "none", c2)
                      ELSE scan(tgt_fpath, Tail(fpaths), c2)

\* survey.get(flen, ())
Bucket(survey, flen) == IF flen \in DOMAIN survey THEN survey[flen] ELSE <<>>

RECURSIVE AllBuckets(_, _)
AllBuckets(survey, keys) ==
    IF keys = {} THEN <<>>
    ELSE LET k == CHOOSE x \in keys : TRUE
         IN survey[k] \o AllBuckets(survey, keys \ {k})

\* (variant) no length lookup: every indexed file is a candidate record
locate_every_record(tgt_fpath, survey) ==
    IF tgt_fpath \notin disk THEN Result(None, "stat", <<>>)
    ELSE scan(tgt_fpath, AllBuckets(survey, DOMAIN survey), <<>>)

\* locate(tgt_fpath, survey): the library path found, or None, or the
\* exception that leaves it ("stat": os.stat of the target, "cmp": filecmp.cmp)
locate(tgt_fpath, survey) ==
    IF tgt_fpath \notin disk THEN Result(None, "stat", <<>>)
    ELSE LET fpaths == Bucket(survey, Size(tgt_fpath))
         IN IF fpaths = <<>> THEN Result(None, "none", <<>>)
            ELSE scan(tgt_fpath, fpaths, <<>>)

\* --------------------------------------------------------- survey_library
\* (variant) the bucket is replaced by the new path
setdefault_replace(d, flen, base_fpath) ==
    IF flen \in DOMAIN d THEN [d EXCEPT ![flen] = <<base_fpath>>]
    ELSE d @@ (flen :> <<base_fpath>>)

\* fpaths = res.setdefault(flen, []); fpaths.append(base_fpath)
setdefault_append(d, flen, base_fpath) ==
    IF flen \in DOMAIN d THEN [d EXCEPT ![flen] = Append(@, base_fpath)]
    ELSE d @@ (flen :> <<base_fpath>>)

\* "for folder in folders: for dpath, dirs, fnames in os.walk(folder)":
\* os.walk lists the next directory of the folder, top-down, or the top of
\* the next folder when the walk of this one is exhausted
SurveyWalk ==
    /\ pc = "survey" /\ fnames = <<>>
    /\ IF todo # <<>>
       THEN /\ fnames' = ListFiles(Head(todo))
            /\ todo' = SubDirs(Head(todo)) \o Tail(todo)
            /\ fi' = fi
       ELSE /\ fi <= Len(library_folders)
            /\ fnames' = ListFiles(library_folders[fi])
            /\ todo' = SubDirs(library_folders[fi])
            /\ fi' = fi + 1
    /\ UNCHANGED <<disk, fsvars, argvars, pc, run, faults, res, cnt, visits,
                   mainvars, delvars, prev>>

\* one iteration of "for base_fname in fnames"
SurveyFile ==
    /\ pc = "survey" /\ fnames # <<>>
    /\ LET base_fpath == Head(fnames)
           ok == base_fpath \in disk
       IN /\ cnt' = cnt + 1
          /\ res' = IF ok THEN setdefault_append(res, Size(base_fpath), base_fpath)
                    ELSE res
          /\ visits' = Append(visits, [path |-> base_fpath, ok |-> ok])
    /\ fnames' = Tail(fnames)
    /\ UNCHANGED <<disk, fsvars, argvars, pc, run, faults, fi, todo, mainvars,
                   delvars, prev>>

\* the statistics are printed, res is returned, and main starts its loop
SurveyReturn ==
    /\ pc = "survey" /\ fnames = <<>> /\ todo = <<>>
    /\ fi > Len(library_folders)
    /\ surveyed' = res
    /\ absent' = <<>> /\ not_needed' = <<>> /\ mcnt' = 0
    /\ todo' = <<camera_folder>>
    /\ pc' = "resolve"
    /\ UNCHANGED <<disk, fsvars, argvars, run, faults, fnames, surveyvars,
                   last, delvars, prev>>


\* ------------------------------------------------------------------- main
\* os.walk(camera_folder) lists the next directory
MainWalk ==
    /\ pc = "resolve" /\ fnames = <<>> /\ todo # <<>>
    /\ fnames' = ListFiles(Head(todo))
    /\ todo' = SubDirs(Head(todo)) \o Tail(todo)
    /\ UNCHANGED <<disk, fsvars, argvars, pc, run, faults, surveyvars,
                   mainvars, delvars, prev>>

\* (variant) a camera file found in the library is deleted on the spot
MainFile_eager ==
    /\ pc = "resolve" /\ fnames # <<>>
    /\ LET fpath == Head(fnames)
           r == locate(fpath, surveyed)
       IN /\ mcnt' = mcnt + 1
          /\ last' = [tgt |-> fpath, found |-> r.found, err |-> r.err,
                      calls |-> r.calls]
          /\ IF r.err # "none"
             THEN /\ pc' = "crashed"
                  /\ UNCHANGED <<absent, not_needed, fnames, disk, deleting,
                                 removed>>
             ELSE /\ pc' = pc
                  /\ fnames' = Tail(fnames)
                  /\ IF r.found # None
                     THEN /\ not_needed' = Append(not_needed, fpath)
                          /\ deleting' = IF rmdups THEN Append(deleting, fpath)
                                         ELSE deleting
                          /\ removed' = IF rmdups THEN removed \cup {fpath}
                                        ELSE removed
                          /\ disk' = IF rmdups THEN disk \ {fpath} ELSE disk
                          /\ absent' = absent
                     ELSE /\ absent' = Append(absent, fpath)
                          /\ UNCHANGED <<not_needed, disk, deleting, removed>>
    /\ UNCHANGED <<fsvars, argvars, run, faults, todo, surveyvars, surveyed,
                   di, del_errors, prev>>

\* one iteration of "for fname in i_filenames": locate, then classify; an
\* exception leaving locate is caught nowhere and ends the run
MainFile ==
    /\ pc = "resolve" /\ fnames # <<>>
    /\ LET fpath == Head(fnames)
           r == locate(fpath, surveyed)
       IN /\ mcnt' = mcnt + 1
          /\ last' = [tgt |-> fpath, found |-> r.found, err |-> r.err,
                      calls |-> r.calls]
          /\ IF r.err # "none"
             THEN /\ pc' = "crashed"
                  /\ UNCHANGED <<absent, not_needed, fnames>>
             ELSE /\ pc' = pc
                  /\ fnames' = Tail(fnames)
                  /\ IF r.found # None
                     THEN /\ not_needed' = Append(not_needed, fpath)
                          /\ absent' = absent
                     ELSE /\ absent' = Append(absent, fpath)
                          /\ not_needed' = not_needed
    /\ UNCHANGED <<disk, fsvars, argvars, run, faults, todo, surveyvars,
                   surveyed, delvars, prev>>

\* the camera walk is exhausted: the report is printed; "if rmdups:"
MainReport ==
    /\ pc = "resolve" /\ fnames = <<>> /\ todo = <<>>
    /\ pc' = IF rmdups THEN "rmdups" ELSE "done"
    /\ di' = 1
    /\ UNCHANGED <<disk, fsvars, argvars, run, faults, todo, fnames,
                   surveyvars, mainvars, deleting, del_errors, removed, prev>>

\* (variant) the file stays where it is
os_remove_keep(d, fpath) == d

\* os.remove(fpath) on an existing file that may be removed
os_remove(d, fpath) == d \ {fpath}

\* (variant) the exception of os.remove is not caught
MainRemove_raise ==
    /\ pc = "rmdups" /\ di <= Len(not_needed)
    /\ LET fpath == not_needed[di]
       IN /\ deleting' = Append(deleting, fpath)
          /\ \E denied \in BOOLEAN :
                IF fpath \notin disk \/ denied
                THEN /\ del_errors' = Append(del_errors, fpath)
                     /\ pc' = "crashed"
                     /\ UNCHANGED <<disk, removed, di>>
                ELSE /\ disk' = os_remove(disk, fpath)
                     /\ removed' = removed \cup {fpath}
                     /\ di' = di + 1
                     /\ UNCHANGED <<del_errors, pc>>
    /\ UNCHANGED <<fsvars, argvars, run, faults, todo, fnames, surveyvars,
                   mainvars, prev>>

\* one iteration of "for fpath in not_needed": os.remove fails when the file
\* is gone or when the system denies the removal; the exception is reported
MainRemove ==
    /\ pc = "rmdups" /\ di <= Len(not_needed)
    /\ LET fpath == not_needed[di]
       IN /\ deleting' = Append(deleting, fpath)
          /\ \E denied \in BOOLEAN :
                IF fpath \notin disk \/ denied
                THEN /\ del_errors' = Append(del_errors, fpath)
                     /\ UNCHANGED <<disk, removed>>
                ELSE /\ disk' = os_remove(disk, fpath)
                     /\ removed' = removed \cup {fpath}
                     /\ del_errors' = del_errors
    /\ di' = di + 1
    /\ UNCHANGED <<fsvars, argvars, pc, run, faults, todo, fnames, surveyvars,
                   mainvars, prev>>

\* the deletion loop is exhausted: main returns
MainReturn ==
    /\ pc = "rmdups" /\ di > Len(not_needed)
    /\ pc' = "done"
    /\ UNCHANGED <<disk, fsvars, argvars, run, faults, todo, fnames,
                   surveyvars, mainvars, delvars, prev>>

\* ------------------------------------------------------------ environment
\* a file of the folders the program works on is removed by someone else
\* while main() runs (a second run is made only where nothing else touches
\* the files, see Rerun)
Vanish ==
    /\ pc \in {"survey", "resolve", "rmdups"} /\ run = "first"
    /\ faults < MaxFaults
    /\ \E f \in disk :
          /\ \E d \in {camera_folder} \cup Range(library_folders) : Under(f, d)
          /\ disk' = disk \ {f}
    /\ faults' = faults + 1
    /\ UNCHANGED <<fsvars, argvars, pc, run, todo, fnames, surveyvars,
                   mainvars, delvars, prev>>

\* the program is run a second time with --rmdups on the same arguments,
\* after a first run that nothing else interfered with
Rerun ==
    /\ pc = "done" /\ rmdups /\ run = "first" /\ faults = 0
    /\ run' = "second"
    /\ prev' = [absent |-> Range(absent), removed |-> removed]
    /\ pc' = "survey"
    /\ fi' = 1 /\ todo' = <<>> /\ fnames' = <<>>
    /\ res' = <<>> /\ cnt' = 0 /\ visits' = <<>>
    /\ surveyed' = <<>> /\ absent' = <<>> /\ not_needed' = <<>> /\ mcnt' = 0
    /\ last' = NoLast
    /\ di' = 1 /\ deleting' = <<>> /\ del_errors' = <<>> /\ removed' = {}
    /\ UNCHANGED <<disk, fsvars, argvars, faults>>

\* ---------------------------------------------------------- specification
Init ==
    /\ disk = Files
    /\ content \in FileContents
    /\ mtime \in FileTimes
    /\ camera_folder \in Dirs
    /\ library_folders \in SeqsUpTo(Dirs, MaxLibFolders)
    /\ rmdups \in BOOLEAN
    /\ pc = "survey" /\ run = "first" /\ faults = 0
    /\ fi = 1 /\ todo = <<>> /\ fnames = <<>>
    /\ res = <<>> /\ cnt = 0 /\ visits = <<>>
    /\ surveyed = <<>> /\ absent = <<>> /\ not_needed = <<>> /\ mcnt = 0
    /\ last = NoLast
    /\ di = 1 /\ deleting = <<>> /\ del_errors = <<>> /\ removed = {}
    /\ prev = NoPrev

Next ==
    \/ SurveyWalk
    \/ SurveyFile
    \/ SurveyReturn
    \/ MainWalk
    \/ MainFile
    \/ MainReport
    \/ MainRemove
    \/ MainReturn
    \/ Vanish
    \/ Rerun

Spec == Init /\ [][Next]_vars


\* ------------------------------------------------------------- properties
\* the paths of the index
Indexed(survey) == UNION {Range(survey[k]) : k \in DOMAIN survey}

\* the bucket the last locate() call looked its target up in
LastBucket == Bucket(surveyed, Size(last.tgt))

Identical(f1, f2) == content[f1] = content[f2]

\* C1: when nothing but the program touches the files, locate returns a path
\* if and only if some indexed file has exactly the target's bytes, and the
\* path it returns is an indexed file with exactly the target's bytes (equal
\* length or an accepting shallow comparison is never enough).
C1_Exactness ==
    (faults = 0 /\ last.tgt # None) =>
        /\ last.err = "none"
        /\ (last.found # None) <=>
               (\E p \in Indexed(surveyed) : Identical(p, last.tgt))
        /\ last.found # None =>
               /\ last.found \in Indexed(surveyed)
               /\ Identical(last.found, last.tgt)

\* locate matched its target although the bucket holds a file of the same
\* length and time stamp (the shallow comparison accepts it) and other bytes
C1_Witness ==
    /\ faults = 0 /\ last.tgt # None /\ last.found # None
    /\ last.found # last.tgt
    /\ \E p \in Range(LastBucket) :
          ~Identical(p, last.tgt) /\ Sig(p) = Sig(last.tgt)

\* C2: after a run with rmdups that nothing else interfered with, every file
\* the deletion pass removed still has an indexed library file of the same
\* bytes on disk.
C2_DeletedStillInLibrary ==
    (pc = "done" /\ faults = 0) =>
        \A f \in removed :
            \E p \in Indexed(surveyed) \cap disk : Identical(p, f)

\* C3: when os.stat of the camera file fails in locate, the file goes to
\* neither list and the run goes on.
C3_CandidateStatFailureSkipped ==
    last.err = "stat" =>
        /\ pc # "crashed"
        /\ last.tgt \notin Range(absent) \cup Range(not_needed)

\* C4: when a record of the bucket cannot be compared (it is gone), the
\* resolution of the camera file is not aborted.
C4_RecordFailureSkipped ==
    last.err = "cmp" => pc # "crashed"

\* C5: the deletion pass attempts the files of not_needed once each, in list
\* order, whichever attempts fail; a failure never ends the run, and a file
\* whose deletion failed is not in the absent list.
C5_DeletionPass ==
    /\ pc = "rmdups" => deleting = SubSeq(not_needed, 1, di - 1)
    /\ (pc = "done" /\ rmdups) => deleting = not_needed
    /\ pc = "crashed" => deleting = <<>>
    /\ Range(del_errors) \subseteq Range(deleting)
    /\ Range(del_errors) \cap Range(absent) = {}

\* a deletion failed, the next one was still made and removed its file
C5_Witness ==
    /\ pc = "done" /\ Len(deleting) >= 2
    /\ del_errors = <<deleting[1]>>
    /\ deleting[2] \in removed

\* C6: once a deletion has been attempted, the index is complete, every
\* camera file has been resolved, and no locate call is started any more:
\* the run is in its deletion pass or over.
C6_DeletionAfterResolution ==
    /\ removed \subseteq Range(deleting)
    /\ deleting # <<>> =>
          /\ pc \in {"rmdups", "done"}
          /\ fi > Len(library_folders)
          /\ surveyed = res
          /\ todo = <<>> /\ fnames = <<>>
          /\ mcnt = Len(absent) + Len(not_needed)

\* a file was removed in a run that also found a file absent
C6_Witness ==
    /\ pc = "done" /\ removed # {} /\ absent # <<>>
    /\ Len(library_folders) > 0

\* C7: in a second run with rmdups, nothing the first run classified absent
\* is deleted, and nothing the first run deleted is reported again.
C7_SecondRun ==
    run = "second" =>
        /\ removed \cap prev.absent = {}
        /\ (Range(not_needed) \cup Range(deleting)) \cap prev.removed = {}
        /\ last.tgt \notin prev.removed

\* the second run is over: it met again, and left alone, the file the first
\* run classified absent, after a first run that removed another file
C7_Witness ==
    /\ run = "second" /\ pc = "done"
    /\ prev.removed # {} /\ prev.absent # {}
    /\ Range(absent) = prev.absent
    /\ mcnt > 0

\* C8: when no indexed file has the target's length, locate returns None and
\* has called filecmp.cmp not once.
C8_PrefilterDecides ==
    (/\ last.tgt # None /\ last.err # "stat"
     /\ \A p \in Indexed(surveyed) : Size(p) # Size(last.tgt)) =>
        /\ last.found = None
        /\ last.err = "none"
        /\ last.calls = <<>>

\* locate was called with a non-empty index that has no file of the
\* target's length
C8_Witness ==
    /\ last.tgt # None /\ last.err = "none"
    /\ Indexed(surveyed) # {}
    /\ \A p \in Indexed(surveyed) : Size(p) # Size(last.tgt)

\* C9: a locate call that ends without an exception returns the first record
\* of the bucket, in insertion order, that has the target's bytes; every
\* record before it was compared and passed over, the last comparison is the
\* full one of the returned record, and no later record was compared.
C9_FirstIdenticalRecord ==
    (/\ last.tgt # None /\ last.err = "none"
     /\ \E p \in Range(LastBucket) : Identical(p, last.tgt)) =>
        \E i \in 1..Len(LastBucket) :
            /\ Identical(LastBucket[i], last.tgt)
            /\ \A j \in 1..(i - 1) : ~Identical(LastBucket[j], last.tgt)
            /\ last.found = LastBucket[i]
            /\ last.calls # <<>>
            /\ last.calls[Len(last.calls)] = Call(LastBucket[i], FALSE)
            /\ \A j \in 1..(i - 1) :
                  \E c \in 1..Len(last.calls) :
                      last.calls[c].base = LastBucket[j]
            /\ \A c \in 1..Len(last.calls) :
                  \E j \in 1..i : last.calls[c].base = LastBucket[j]

\* the returned record is not the first of its bucket: an earlier record of
\* the same length and time stamp has other bytes, and a later record exists
C9_Witness ==
    /\ last.tgt # None /\ last.found # None
    /\ Len(LastBucket) >= 3
    /\ last.found = LastBucket[2]
    /\ ~Identical(LastBucket[1], last.tgt)
    /\ Sig(LastBucket[1]) = Sig(last.tgt)
    /\ LastBucket[3] # LastBucket[1] /\ LastBucket[3] # LastBucket[2]

\* the paths of the successful visits of files of length k, in visit order
VisitedOfSize(k) ==
    LET Hit(v) == v.ok /\ Size(v.path) = k
        hits == SelectSeq(visits, Hit)
    IN [i \in 1..Len(hits) |-> hits[i].path]

RECURSIVE Entries(_, _)
Entries(d, keys) ==
    IF keys = {} THEN 0
    ELSE LET k == CHOOSE x \in keys : TRUE
         IN Len(d[k]) + Entries(d, keys \ {k})

Excluded == {i \in 1..Len(visits) : ~visits[i].ok}

====
